---- MODULE Spec2Model ----
(***************************************************************************)
(* superdeduper (src/main.rs): perceptual hashing of images, greedy        *)
(* clustering of the hashes, and the naming of the moved files.            *)
(*                                                                         *)
(* Three specifications share the variables of this module:                *)
(*   Spec      main(): read, cluster, sort, name and move                  *)
(*   SpecHash  PHash::new, from the 64 transform coefficients on           *)
(*   SpecName  new_filename as a pure function of its arguments            *)
(*                                                                         *)
(* A PHash(u64) is modelled as the set of its one-bits, a subset of 0..63, *)
(* because the model checker's integers are narrower than 64 bits.         *)
(* A file name is a sequence of one-character strings.                     *)
(***************************************************************************)
EXTENDS Integers, Sequences, FiniteSets, TLC

\* ------------------------------------------------------------------ bounds
\* longest list of images read from the source directory
MaxLen == 4
\* largest version number handed to new_filename in SpecName
MaxVersion == 11
\* largest number of leading coefficients that take the second value in SpecHash
MaxSplit == 3

\* --------------------------------------------------------- program constants
\* is_similar: distance < 8
Threshold == 8
\* number of bits of a PHash, and of transform coefficients
HashBits == 64
\* divisor of the average: the 63 coefficients that are not the DC factor
AvgCount == 63
\* width of the {:016x} rendering
HexWidth == 16

\* ------------------------------------------------------------ input domains
BitsFromTo(a, b) == {k \in 0..(HashBits - 1) : a <= k /\ k <= b}
\* 0x0000000000000000, 0x000000000000007f, 0x800000000000007f (pairwise
\* distances 7, 8 and 1) and 0xffffffffffffffff (at least 56 from the others)
Fingerprints ==
    { {}, BitsFromTo(0, 6), BitsFromTo(0, 6) \cup {63}, BitsFromTo(0, 63) }
\* width * height of a 64x64 and of a 128x128 image
Sizes == {4096, 16384}
\* extensions of the files found in the source directory
Exts == {"jpe"}

VARIABLES
    pc,                 \* position of main()
    processed_images,   \* Vec<ProcessedImage<PHash>>, the working set
    dupes,              \* Vec<Vec<ProcessedImage<PHash>>>
    neighbors,          \* the group under construction
    image,              \* the popped anchor, or NoImage
    i,                  \* index of the scan
    gi, mi,             \* positions of the two loops that move the files
    moves,              \* the renames performed, in order
    input,              \* history: the images as read
    ws0,                \* history: the working set when the anchor was popped
    compared,           \* history: paths compared with the anchor in this scan
    emitted,            \* history: the groups in the order they were pushed
    hpc, transformed, average, hash_value, hi,   \* PHash::new
    nm_in, nm_out       \* new_filename as a function

mainVars == <<pc, processed_images, dupes, neighbors, image, i, gi, mi, moves,
              input, ws0, compared, emitted>>
hashVars == <<hpc, transformed, average, hash_value, hi>>
nameVars == <<nm_in, nm_out>>
vars == <<mainVars, hashVars, nameVars>>

NoImage == [path |-> [id |-> 0, ext |-> ""], sig |-> {}, size |-> 0]

\* ------------------------------------------------------- sequence helpers
Last(s) == s[Len(s)]
Front(s) == SubSeq(s, 1, Len(s) - 1)
\* a removal that leaves the element in place
RemoveKeep(s, idx) == s

\* Vec::remove(i) with i counted from 0: the later elements shift left
Remove(s, idx) == SubSeq(s, 1, idx) \o SubSeq(s, idx + 2, Len(s))

\* ------------------------------------------------------------------ PHash
\* (h1 ^ h2).count_ones()
distance(h1, h2) == Cardinality((h1 \ h2) \cup (h2 \ h1))

\* thresholds that are off by one, and too strict
is_similar_le(d) == d <= Threshold

is_similar_strict(d) == d < Threshold \div 2

is_similar(d) == d < Threshold

HexChars == <<"0", "1", "2", "3", "4", "5", "6", "7",
              "8", "9", "a", "b", "c", "d", "e", "f">>

Bit(h, k) == IF k \in h THEN 1 ELSE 0

\* value of the k-th hex digit, k = 1 the most significant
Nibble(h, k) ==
    LET lo == 4 * (HexWidth - k)
    IN  Bit(h, lo) + 2 * Bit(h, lo + 1) + 4 * Bit(h, lo + 2) + 8 * Bit(h, lo + 3)

\* impl fmt::Display for PHash: "{:016x}"
FmtHex(h) == [k \in 1..HexWidth |-> HexChars[Nibble(h, k) + 1]]

\* a rendering that keeps only the last decimal digit
FmtDecLastDigit(n) == <<HexChars[(n % 10) + 1]>>

\* "{}" of a u32
RECURSIVE FmtDec(_)
FmtDec(n) ==
    IF n < 10 THEN <<HexChars[n + 1]>>
    ELSE FmtDec(n \div 10) \o <<HexChars[(n % 10) + 1]>>

\* ---------------------------------------------------------------- naming
supported_extension(path) ==
    CASE path.ext \in {"gif"} -> "GIF"
      [] path.ext \in {"png", "png-large"} -> "PNG"
      [] path.ext \in {"jpg", "jpeg", "jpe", "jpg-large"} -> "JPEG"
      [] path.ext \in {"webp"} -> "WEBP"
      [] OTHER -> "None"

\* a name that leaves out the version
new_filename_noversion(old_path, canon_signature, this_signature, version) ==
    [base |-> IF version # 0
              THEN FmtHex(canon_signature) \o <<"-">> \o FmtHex(this_signature)
              ELSE FmtHex(canon_signature),
     ext |-> "jpg"]

\* the name without the directory: base is the pushed component, ext what
\* set_extension leaves after it ("" when the format is not recognised)
new_filename(old_path, canon_signature, this_signature, version) ==
    LET base == IF version # 0
                THEN FmtHex(canon_signature) \o <<"-">> \o FmtDec(version)
                     \o <<"-">> \o FmtHex(this_signature)
                ELSE FmtHex(canon_signature)
        fmt == supported_extension(old_path)
        ext == CASE fmt = "GIF" -> "gif"
                 [] fmt = "PNG" -> "png"
                 [] fmt = "JPEG" -> "jpg"
                 [] fmt = "WEBP" -> "webp"
                 [] OTHER -> ""
    IN  [base |-> base, ext |-> ext]

\* ------------------------------------------------------------------ sort
\* the comparator with its arguments in the other order: a.len().cmp(&b.len())
CmpGroupsAscending(a, b) ==
    IF Len(a) < Len(b) THEN -1 ELSE IF Len(a) = Len(b) THEN 0 ELSE 1

\* the comparator of dupes.sort_by: b.len().cmp(&a.len())
CmpGroups(a, b) ==
    IF Len(b) < Len(a) THEN -1 ELSE IF Len(b) = Len(a) THEN 0 ELSE 1

\* position at which a stable sort places x among the sorted s
RECURSIVE InsertSorted(_, _)
InsertSorted(s, x) ==
    IF s = <<>> THEN <<x>>
    ELSE IF CmpGroups(Last(s), x) <= 0 THEN Append(s, x)
    ELSE Append(InsertSorted(Front(s), x), Last(s))

\* slice::sort_by, a stable sort
RECURSIVE SortBy(_)
SortBy(s) ==
    IF s = <<>> THEN <<>> ELSE InsertSorted(SortBy(Front(s)), Last(s))

\* ------------------------------------------------------------------ main
InitMain ==
    /\ pc = "read"
    /\ processed_images = <<>>
    /\ dupes = <<>>
    /\ neighbors = <<>>
    /\ image = NoImage
    /\ i = 0
    /\ gi = 0
    /\ mi = 0
    /\ moves = <<>>
    /\ input = <<>>
    /\ ws0 = <<>>
    /\ compared = <<>>
    /\ emitted = <<>>

\* one file of the glob is read, hashed and pushed
ReadImage ==
    /\ pc = "read"
    /\ Len(processed_images) < MaxLen
    /\ \E s \in Fingerprints, z \in Sizes, e \in Exts :
         /\ supported_extension([id |-> 0, ext |-> e]) # "None"
         /\ processed_images' = Append(processed_images,
                [path |-> [id |-> Len(processed_images) + 1, ext |-> e],
                 sig |-> s, size |-> z])
    /\ UNCHANGED <<pc, dupes, neighbors, image, i, gi, mi, moves,
                   input, ws0, compared, emitted>>
    /\ UNCHANGED <<hashVars, nameVars>>

\* the glob is exhausted
FinishRead ==
    /\ pc = "read"
    /\ pc' = "loop"
    /\ input' = processed_images
    /\ UNCHANGED <<processed_images, dupes, neighbors, image, i, gi, mi, moves,
                   ws0, compared, emitted>>
    /\ UNCHANGED <<hashVars, nameVars>>

\* while !processed_images.is_empty(): pop the anchor, start the scan
PopAnchor ==
    /\ pc = "loop"
    /\ processed_images # <<>>
    /\ neighbors' = <<>>
    /\ image' = Last(processed_images)
    /\ processed_images' = Front(processed_images)
    /\ i' = Len(processed_images) - 1
    /\ pc' = "scan"
    /\ ws0' = processed_images
    /\ compared' = <<>>
    /\ UNCHANGED <<dupes, gi, mi, moves, input, emitted>>
    /\ UNCHANGED <<hashVars, nameVars>>

\* one turn of the inner loop with i > 0
ScanStep ==
    /\ pc = "scan"
    /\ i # 0
    /\ i' = i - 1
    /\ LET other == processed_images[i' + 1]
       IN  /\ compared' = Append(compared, other.path.id)
           /\ IF is_similar(distance(other.sig, image.sig))
              THEN /\ neighbors' = Append(neighbors, other)
                   /\ processed_images' = Remove(processed_images, i')
              ELSE UNCHANGED <<neighbors, processed_images>>
    /\ UNCHANGED <<pc, dupes, image, gi, mi, moves, input, ws0, emitted>>
    /\ UNCHANGED <<hashVars, nameVars>>

\* the anchor placed at the front of its group
ScanBreakAnchorFirst ==
    /\ pc = "scan"
    /\ i = 0
    /\ dupes' = Append(dupes, <<image>> \o neighbors)
    /\ emitted' = Append(emitted, <<image>> \o neighbors)
    /\ neighbors' = <<>>
    /\ image' = NoImage
    /\ pc' = "loop"
    /\ UNCHANGED <<processed_images, i, gi, mi, moves, input, ws0, compared>>
    /\ UNCHANGED <<hashVars, nameVars>>

\* i == 0: break, push the anchor, push the group
ScanBreak ==
    /\ pc = "scan"
    /\ i = 0
    /\ dupes' = Append(dupes, Append(neighbors, image))
    /\ emitted' = Append(emitted, Append(neighbors, image))
    /\ neighbors' = <<>>
    /\ image' = NoImage
    /\ pc' = "loop"
    /\ UNCHANGED <<processed_images, i, gi, mi, moves, input, ws0, compared>>
    /\ UNCHANGED <<hashVars, nameVars>>

\* the working set is empty
LoopExit ==
    /\ pc = "loop"
    /\ processed_images = <<>>
    /\ pc' = "sort"
    /\ UNCHANGED <<processed_images, dupes, neighbors, image, i, gi, mi, moves,
                   input, ws0, compared, emitted>>
    /\ UNCHANGED <<hashVars, nameVars>>

SortDupes ==
    /\ pc = "sort"
    /\ dupes' = SortBy(dupes)
    /\ gi' = 1
    /\ mi' = 1
    /\ pc' = "move"
    /\ UNCHANGED <<processed_images, neighbors, image, i, moves,
                   input, ws0, compared, emitted>>
    /\ UNCHANGED <<hashVars, nameVars>>

\* one member of one group is named and renamed
MoveStep ==
    /\ pc = "move"
    /\ gi <= Len(dupes)
    /\ LET group == dupes[gi]
       IN  IF Len(group) > 0
           THEN LET canon == group[Len(group)].sig
                    member == group[mi]
                    new_loc == new_filename(member.path, canon, member.sig, mi - 1)
                IN  /\ moves' = Append(moves, [group |-> gi, rank |-> mi - 1,
                                               from |-> member.path, to |-> new_loc])
                    /\ IF mi < Len(group)
                       THEN mi' = mi + 1 /\ gi' = gi
                       ELSE mi' = 1 /\ gi' = gi + 1
                    /\ pc' = pc
           ELSE \* assert!(group.len() > 0) fails
                /\ pc' = "panic"
                /\ UNCHANGED <<moves, gi, mi>>
    /\ UNCHANGED <<processed_images, dupes, neighbors, image, i,
                   input, ws0, compared, emitted>>
    /\ UNCHANGED <<hashVars, nameVars>>

MoveDone ==
    /\ pc = "move"
    /\ gi > Len(dupes)
    /\ pc' = "done"
    /\ UNCHANGED <<processed_images, dupes, neighbors, image, i, gi, mi, moves,
                   input, ws0, compared, emitted>>
    /\ UNCHANGED <<hashVars, nameVars>>

\* ------------------------------------------------------------- PHash::new
\* Single-precision values are held as integers counted in units of 2^-29,
\* the spacing of the single-precision numbers just above 1/64.  Every value
\* PHash::new computes from coefficients in Coefs is a multiple of that unit:
\* 1/63 lies in [2^-6, 2^-5), and sums and roundings only coarsen.
Unit == 2 ^ 29

\* bits of the significand of an f32
Mantissa == 24

Abs(n) == IF n < 0 THEN -n ELSE n

RECURSIVE BitLen(_)
BitLen(n) == IF n = 0 THEN 0 ELSE 1 + BitLen(n \div 2)

\* n + rem/den units, n >= 0 and 0 <= 2 * rem < 2 * den with 2 * rem # den,
\* rounded to the nearest number of Mantissa significant bits, ties to even
RoundMag(n, rem, den) ==
    LET p == BitLen(n)
    IN  IF p <= Mantissa
        THEN IF 2 * rem > den THEN n + 1 ELSE n
        ELSE LET step == 2 ^ (p - Mantissa)
                 keep == n \div step
                 low == n % step
                 up == \/ 2 * low > step
                       \/ 2 * low = step /\ rem > 0
                       \/ 2 * low = step /\ rem = 0 /\ keep % 2 = 1
             IN  (IF up THEN keep + 1 ELSE keep) * step

\* a + b in f32
F32Add(a, b) ==
    LET t == a + b
    IN  IF t < 0 THEN -RoundMag(-t, 0, 1) ELSE RoundMag(t, 0, 1)

\* (c as f32) / d in f32, for an integer coefficient c
F32Div(c, d) ==
    LET n == Abs(c) * Unit
        q == RoundMag(n \div d, n % d, d)
    IN  IF c < 0 THEN -q ELSE q

\* transformed[k] >= average in f32
F32Ge(c, a) == c * Unit >= a

\* if transformed[i] >= average
AboveAverage(c, a) == F32Ge(c, a)

\* for i in 1..64: the first index of the loop of the average
AvgFirst == 1

\* integer coefficients small enough for the unit above
Coefs == {-3, -2, -1, 0, 1, 2, 3}

\* the arrays of coefficients tried: a DC factor, then a run of one value
\* followed by another value up to index 63
CoefVectors ==
    { [k \in 0..(HashBits - 1) |->
          IF k = 0 THEN d ELSE IF k <= split THEN a ELSE b] :
      d \in {-3, 0, 3}, a \in Coefs, b \in Coefs, split \in 0..MaxSplit }

IdleMain ==
    /\ pc = "off"
    /\ processed_images = <<>>
    /\ dupes = <<>>
    /\ neighbors = <<>>
    /\ image = NoImage
    /\ i = 0
    /\ gi = 0
    /\ mi = 0
    /\ moves = <<>>
    /\ input = <<>>
    /\ ws0 = <<>>
    /\ compared = <<>>
    /\ emitted = <<>>

\* the loop of the average started at the DC factor
InitHashVarsFromDC ==
    /\ hpc = "avg"
    /\ transformed \in CoefVectors
    /\ average = 0
    /\ hash_value = {}
    /\ hi = AvgFirst - 1

\* let mut average = 0.0f32, with the transform already computed
InitHashVars ==
    /\ hpc = "avg"
    /\ transformed \in CoefVectors
    /\ average = 0
    /\ hash_value = {}
    /\ hi = AvgFirst

\* average += transformed[i] / 63.0
AvgStep ==
    /\ hpc = "avg"
    /\ hi < HashBits
    /\ average' = F32Add(average, F32Div(transformed[hi], AvgCount))
    /\ hi' = hi + 1
    /\ UNCHANGED <<hpc, transformed, hash_value>>
    /\ UNCHANGED <<mainVars, nameVars>>

\* let mut hash_value = 0u64
AvgDone ==
    /\ hpc = "avg"
    /\ hi = HashBits
    /\ hpc' = "bits"
    /\ hi' = 0
    /\ hash_value' = {}
    /\ UNCHANGED <<transformed, average>>
    /\ UNCHANGED <<mainVars, nameVars>>

\* if transformed[i] >= average { hash_value |= 1 << i }
BitStep ==
    /\ hpc = "bits"
    /\ hi < HashBits
    /\ hash_value' = IF AboveAverage(transformed[hi], average)
                     THEN hash_value \cup {hi}
                     ELSE hash_value
    /\ hi' = hi + 1
    /\ UNCHANGED <<hpc, transformed, average>>
    /\ UNCHANGED <<mainVars, nameVars>>

\* PHash(hash_value)
BitsDone ==
    /\ hpc = "bits"
    /\ hi = HashBits
    /\ hpc' = "done"
    /\ UNCHANGED <<transformed, average, hash_value, hi>>
    /\ UNCHANGED <<mainVars, nameVars>>

IdleHash ==
    /\ hpc = "off"
    /\ transformed = <<>>
    /\ average = 0
    /\ hash_value = {}
    /\ hi = 0

IdleName ==
    /\ nm_in = <<>>
    /\ nm_out = <<>>

Init == InitMain /\ IdleHash /\ IdleName

Next ==
    \/ ReadImage
    \/ FinishRead
    \/ PopAnchor
    \/ ScanStep
    \/ ScanBreak
    \/ LoopExit
    \/ SortDupes
    \/ MoveStep
    \/ MoveDone

Spec == Init /\ [][Next]_vars

\* the pairs of calls tried: one canonical signature, two members
NameInputs ==
    [old_path : {[id |-> 0, ext |-> e] : e \in Exts},
     canon : Fingerprints,
     sigA : Fingerprints, versionA : 0..MaxVersion,
     sigB : Fingerprints, versionB : 0..MaxVersion]

InitNameVars ==
    /\ nm_in \in NameInputs
    /\ nm_out = <<>>

\* new_filename called for two members of one group
CallNewFilename ==
    /\ nm_out = <<>>
    /\ nm_in # <<>>
    /\ nm_out' = << new_filename(nm_in.old_path, nm_in.canon, nm_in.sigA, nm_in.versionA),
                    new_filename(nm_in.old_path, nm_in.canon, nm_in.sigB, nm_in.versionB) >>
    /\ UNCHANGED nm_in
    /\ UNCHANGED <<mainVars, hashVars>>

InitName == IdleMain /\ IdleHash /\ InitNameVars

NextName == CallNewFilename

SpecName == InitName /\ [][NextName]_vars

InitHash == IdleMain /\ InitHashVars /\ IdleName

NextHash ==
    \/ AvgStep
    \/ AvgDone
    \/ BitStep
    \/ BitsDone

SpecHash == InitHash /\ [][NextHash]_vars


\* =================================================== properties of main()
Clustered == pc \in {"sort", "move", "done"}

RECURSIVE Flatten(_)
Flatten(groups) ==
    IF groups = <<>> THEN <<>> ELSE Flatten(Front(groups)) \o Last(groups)

Reverse(s) == [k \in 1..Len(s) |-> s[Len(s) + 1 - k]]

Occurrences(s, x) == Cardinality({k \in 1..Len(s) : s[k] = x})

\* C1: when the clustering loop has finished, the groups partition the input:
\* no group is empty, every image read is in exactly one group exactly once,
\* and the groups hold nothing else.
C1_GroupsPartitionInput ==
    Clustered =>
        /\ \A g \in 1..Len(dupes) : Len(dupes[g]) > 0
        /\ Len(Flatten(dupes)) = Len(input)
        /\ \A k \in 1..Len(input) : Occurrences(Flatten(dupes), input[k]) = 1

C1_Witness ==
    /\ pc = "done"
    /\ Len(input) >= 3
    /\ Len(dupes) >= 2
    /\ \E a, b \in 1..Len(input) : a # b /\ input[a].sig = input[b].sig

\* C2: the member renamed with rank 0 is the canonical member of its group
\* (the last element, whose fingerprint prefixes the names of the group), and
\* its basename is the canonical fingerprint in 16 hex digits.
C2_RankZeroIsCanonical ==
    \A k \in 1..Len(moves) :
        moves[k].rank = 0 =>
            /\ moves[k].from = Last(dupes[moves[k].group]).path
            /\ moves[k].to.base = FmtHex(Last(dupes[moves[k].group]).sig)

\* C3: after the sort the groups are in descending order of size.
C3_DescendingSizes ==
    pc \in {"move", "done"} =>
        \A g \in 1..(Len(dupes) - 1) : Len(dupes[g]) >= Len(dupes[g + 1])

C3_Witness ==
    /\ pc = "done"
    /\ dupes # emitted
    /\ \E g \in 1..(Len(dupes) - 1) : Len(dupes[g]) > Len(dupes[g + 1])

\* C5: a finished turn of the clustering loop has popped the last image of
\* the working set as the anchor and pushed the group made of the remaining
\* images at distance less than 8 from the anchor, in the order of a scan from
\* the end to the start, followed by the anchor; every remaining image was
\* compared once, in that order, and the images left keep their order.
C5_GroupIsScanOfWorkingSet ==
    (pc = "loop" /\ dupes # <<>>) =>
        LET anchor == Last(ws0)
            rest == Front(ws0)
            Near(x) == distance(x.sig, anchor.sig) < 8
            Far(x) == ~Near(x)
        IN  /\ Last(dupes) = Append(SelectSeq(Reverse(rest), Near), anchor)
            /\ processed_images = SelectSeq(rest, Far)
            /\ compared = [k \in 1..Len(rest) |-> Reverse(rest)[k].path.id]

C5_Witness ==
    /\ pc = "loop"
    /\ dupes # <<>>
    /\ Len(ws0) >= 4
    /\ \E m \in 1..(Len(Last(dupes)) - 1) :
           distance(Last(dupes)[m].sig, Last(Last(dupes)).sig) = 7
    /\ \E k \in 1..Len(processed_images) :
           distance(processed_images[k].sig, Last(Last(dupes)).sig) = 8
    /\ Len(processed_images) >= 2

\* C6: every member of a group is at distance less than 8 from the anchor of
\* the group, its last element; two members of one group need not be that
\* close to each other (the witness).
C6_MembersNearAnchor ==
    \A g \in 1..Len(dupes) : \A m \in 1..Len(dupes[g]) :
        distance(dupes[g][m].sig, Last(dupes[g]).sig) < 8

C6_Witness ==
    \E g \in 1..Len(dupes) : \E m, n \in 1..Len(dupes[g]) :
        /\ distance(dupes[g][m].sig, dupes[g][n].sig) >= 8
        /\ distance(dupes[g][m].sig, Last(dupes[g]).sig) < 8
        /\ distance(dupes[g][n].sig, Last(dupes[g]).sig) < 8

C9_LaterGroupsFarFromAnchor ==
    /\ \A a, b \in 1..Len(emitted) :
           a < b => \A m \in 1..Len(emitted[b]) :
                        distance(emitted[b][m].sig, Last(emitted[a]).sig) >= 8
    /\ \A g \in 1..Len(dupes) :
           Occurrences(dupes, dupes[g]) = Occurrences(emitted, dupes[g])
    /\ Len(dupes) = Len(emitted)
    /\ \A g, h \in 1..Len(dupes) :
           g # h => /\ Last(dupes[g]).sig # Last(dupes[h]).sig
                    /\ distance(Last(dupes[g]).sig, Last(dupes[h]).sig) >= 8

\* a member of the earlier group is close to the anchor of the later one
C9_Witness ==
    /\ pc = "done"
    /\ dupes # emitted
    /\ \E a, b \in 1..Len(emitted) :
           /\ a < b
           /\ \E m \in 1..Len(emitted[a]) :
                  distance(emitted[a][m].sig, Last(emitted[b]).sig) < 8

\* C10: no two renames of a run have the same basename, hence none the same
\* destination.
C10_BasenamesUnique ==
    \A p, q \in 1..Len(moves) :
        p # q => /\ moves[p].to.base # moves[q].to.base
                 /\ moves[p].to # moves[q].to

C10_Witness ==
    /\ pc = "done"
    /\ Len(dupes) >= 2
    /\ \E p, q \in 1..Len(moves) :
           /\ p # q
           /\ moves[p].group = moves[q].group
           /\ moves[p].rank > 0
           /\ moves[q].rank > 0
           /\ \E a, b \in 1..Len(input) :
                  /\ input[a].path = moves[p].from
                  /\ input[b].path = moves[q].from
                  /\ input[a].sig = input[b].sig


\* ================================================== properties of PHash::new
\* the sum of the coefficients at the indices from..63
RECURSIVE CoefSum(_, _)
CoefSum(t, from) ==
    IF from > 63 THEN 0 ELSE t[from] + CoefSum(t, from + 1)

\* the f32 value the loop leaves in average: the divisions by 63.0 and the
\* additions in the order of the indices 1..63, each rounded; st is the index
\* reached and the sum so far
RECURSIVE AverageFrom(_, _)
AverageFrom(t, st) ==
    IF st.k > 63 THEN st.acc
    ELSE AverageFrom(t, [k |-> st.k + 1,
                         acc |-> F32Add(st.acc, F32Div(t[st.k], 63))])

RunningAverage(t) == AverageFrom(t, [k |-> 1, acc |-> 0])

\* the exact mean of the coefficients at 1..63 in units, rounded down: with
\* the sum 63 * w + r and the unit 63 * u + v it is w * Unit + r * u + r * v / 63
MeanFloor(t) ==
    LET w == CoefSum(t, 1) \div 63
        r == CoefSum(t, 1) % 63
    IN  w * Unit + r * (Unit \div 63) + (r * (Unit % 63)) \div 63

C4_RanksGiveDistinctBasenames ==
    nm_out # <<>> =>
        /\ nm_in.versionA # nm_in.versionB => nm_out[1].base # nm_out[2].base
        /\ \A n \in {1, 2} :
               LET v == IF n = 1 THEN nm_in.versionA ELSE nm_in.versionB
               IN  /\ SubSeq(nm_out[n].base, 1, 16) = FmtHex(nm_in.canon)
                   /\ v = 0 => Len(nm_out[n].base) = 16
                   /\ v > 0 => Len(nm_out[n].base) > 16 /\ nm_out[n].base[17] = "-"

\* equal fingerprints, ranks 1 and 11
C4_Witness ==
    /\ nm_out # <<>>
    /\ nm_in.sigA = nm_in.sigB
    /\ nm_in.versionA = 1
    /\ nm_in.versionB = 11
    /\ nm_out[1].base # nm_out[2].base

====
